---- MODULE Spec2Model ----
(***************************************************************************)
(* Model of the control core of cowfarg (src/src/game/mod.rs): Master, its  *)
(* event handlers, the pending screen switch of State, ConsoleStatus,       *)
(* Console (history, prompt, command execution) and ConsoleLogger, together *)
(* with the two screens Menu and Play as far as they act on that state.     *)
(*                                                                         *)
(* Text is a sequence of pieces: one-character strings for typed            *)
(* characters, longer strings for the literal parts of format strings, and  *)
(* "\n" for a line break.                                                   *)
(***************************************************************************)
EXTENDS Integers, Sequences, FiniteSets, TLC

VARIABLES
    gs,             \* Master.gs: the active screen, "Menu" or "Play"
    switch_state,   \* State.switch_state: "None" or the requested screen
    mouse,          \* State.mouse
    console_status, \* Master.console_status
    history,        \* Console.history: the fragments of the Text
    prompt,         \* Console.prompt, fragment 1: the line being typed
    fragments,      \* CONSOLE_LOGGER.fragments
    continuing,     \* ctx.continuing
    cursor_type,    \* the platform cursor icon (mouse::cursor_type)
    cursor_hidden,  \* the platform cursor hidden flag (mouse::cursor_hidden)
    residual,       \* whole fixed steps the timer still owes (timer context)
    exit,           \* how event::run ended: "none" while it is looping
    last,           \* observation: the handler that ran last and what it called
    cursor_at_open, \* observation: the platform cursor just before the console last opened
    keys,           \* observation: the characters typed into the open console since
                    \* the last command line was run
    pressed,        \* the keys the keyboard context holds as pressed
    moves,          \* observation: the latest key events seen by the keyboard context
    holder,         \* the thread that holds the Mutex of CONSOLE_LOGGER.fragments
    threads,        \* where each thread is in ConsoleLogger::log or ::empty
    drained,        \* observation: what each call of ConsoleLogger::empty returned
    pushed,         \* observation: the fragments pushed, in the order of the pushes
    logged,         \* observation: the records whose ConsoleLogger::log has returned
    grid,           \* a Grid of a World, looked at on its own (Play builds one of
                    \* 16 by 16 and never changes it)
    overflow_checks, \* whether the build panics on integer overflow or wraps
    grid_last       \* observation: the last operation on the Grid and the Grid before

prog == <<gs, switch_state, mouse, console_status, history, prompt, fragments,
          continuing, cursor_type, cursor_hidden, residual, exit>>
\* the keyboard context, the threads at the logger and their observation
aux == <<keys, pressed, moves, holder, threads, drained, pushed, logged,
         grid, overflow_checks, grid_last>>
vars == <<gs, switch_state, mouse, console_status, history, prompt, fragments,
          continuing, cursor_type, cursor_hidden, residual, exit, last, cursor_at_open,
          keys, pressed, moves, holder, threads, drained, pushed, logged,
          grid, overflow_checks, grid_last>>

----------------------------------------------------------------------------
(* Bounds of the model *)

\* most fragments the history and the log buffer hold together before the
\* operator stops adding to them
MaxHistory == 4
\* most whole fixed steps that elapse between two frames
MaxSteps == 2
\* most characters typed into the console for one command line, Return included
MaxKeys == 8
\* how many of the latest key events are kept for looking at
MaxMoves == 3
\* most calls of ConsoleLogger::log
MaxRecords == 3
\* most calls of ConsoleLogger::empty by the threads at the logger
MaxDrains == 3
\* most fragments of a history handed to the trimming loop
MaxFrags == 4
\* the widest and highest a Grid is made by widen and heighten
MaxSide == 2

----------------------------------------------------------------------------
(* Program constants *)

PROMPT_Y == 196
\* the font size the console text is built with: the height of one line
LineHeight == 18
\* the window width State.width is read from
Width == 1152
\* the number of values of a u16, the type of Grid.width and of the coordinates
U16 == 65536

----------------------------------------------------------------------------
(* Text *)

CLEAR == <<"c", "l", "e", "a", "r">>
RELOAD == <<"r", "e", "l", "o", "a", "d">>
HELLO == <<"h", "e", "l", "l", "o">>
QUIT == <<"q", "u", "i", "t">>

\* control characters text_input_event tells apart
BACKSPACE == "U+0008"
DELETE == "U+007F"
ESCAPE == "U+001B"
TAB == "\t"
PASTE == "U+0016"
RETURN == "\r"
\* a control character with no meaning to the console
SOH == "U+0001"

\* char::is_control
is_control(c) == c \in {BACKSPACE, DELETE, ESCAPE, TAB, PASTE, RETURN, SOH, "\n"}

\* char::is_whitespace
is_whitespace(c) == c \in {" ", "\t", "\n", "\r"}

\* a TextFragment: its text and its colour
Frag(text, color) == [text |-> text, color |-> color]

\* Assets::raw_text_with(text, 18.): a Text of one fragment
raw_text_with(text) == <<Frag(text, "None")>>

\* Assets::raw_text(18.): a Text of no fragment
raw_text == <<>>

RECURSIVE Contents(_)
\* the text of all fragments of a Text, in order
Contents(h) == IF h = <<>> THEN <<>> ELSE Head(h).text \o Contents(Tail(h))

RECURSIVE Breaks(_)
\* the number of line breaks of a text
Breaks(t) ==
    IF t = <<>> THEN 0
    ELSE (IF Head(t) = "\n" THEN 1 ELSE 0) + Breaks(Tail(t))

\* the number of lines a text is laid out on
LineCount(t) ==
    IF t = <<>> THEN 0
    ELSE Breaks(t) + (IF t[Len(t)] = "\n" THEN 0 ELSE 1)

\* Text::height: the rendered height of the history
height(h) == LineHeight * LineCount(Contents(h))

RECURSIVE FirstToken(_)
\* prompt.split(char::is_whitespace), element 0
FirstToken(s) ==
    IF s = <<>> \/ is_whitespace(Head(s)) THEN <<>>
    ELSE <<Head(s)>> \o FirstToken(Tail(s))

RECURSIVE split_no_empty(_)
\* a split that yields no piece for an empty stretch, as str::split_whitespace does
split_no_empty(s) ==
    IF s = <<>> THEN <<>>
    ELSE IF is_whitespace(Head(s)) THEN split_no_empty(Tail(s))
    ELSE <<FirstToken(s)>>
            \o split_no_empty(SubSeq(s, Len(FirstToken(s)) + 1, Len(s)))

RECURSIVE split(_)
\* prompt.split(char::is_whitespace).collect(): the pieces between the whitespace
\* characters, the empty ones included; an empty string gives one empty piece
split(s) ==
    IF Len(FirstToken(s)) = Len(s) THEN <<s>>
    ELSE <<FirstToken(s)>> \o split(SubSeq(s, Len(FirstToken(s)) + 2, Len(s)))

\* a pop that leaves the string as it is
pop_nothing(s) == s

\* String::pop
pop(s) == IF s = <<>> THEN s ELSE SubSeq(s, 1, Len(s) - 1)

----------------------------------------------------------------------------
(* ConsoleLogger *)

\* ConsoleLogger::get_colour
get_colour(level) ==
    CASE level = "Trace" -> "BLUE"
      [] level = "Info" -> "None"
      [] level = "Debug" -> "GREEN"
      [] level = "Warn" -> "YELLOW"
      [] level = "Error" -> "RED"

\* the name of this crate, with which the targets of its records begin
COWFARG == <<"c", "o", "w", "f", "a", "r", "g">>

\* str::starts_with
starts_with(t, p) == Len(t) >= Len(p) /\ SubSeq(t, 1, Len(p)) = p

\* a logger that is enabled for every target
enabled_everywhere(target) == TRUE

\* ConsoleLogger::enabled
enabled(target) == starts_with(target, COWFARG)

\* a mutex that is handed out while it is held
can_lock_held(h) == TRUE

\* Mutex::lock returns once no thread holds the mutex; h is the holder
can_lock(h) == h = "none"

\* ConsoleLogger::log for a record of this crate: the buffer after the push
log(frags, level, args) == Append(frags, Frag(args \o <<"\n">>, get_colour(level)))

\* an empty that hands out the buffer and keeps it
empty_kept(frags) == [taken |-> frags, left |-> frags]

\* ConsoleLogger::empty: what the drain returns and what it leaves in the buffer
empty(frags) == [taken |-> frags, left |-> <<>>]

----------------------------------------------------------------------------
(* Grid *)

\* a Grid: its width and its cells, row after row
Grid(width, mats) == [width |-> width, mats |-> mats]

\* Grid::new, where the product is taken in u16 and wraps unless the build
\* checks; the cells are vec![Material::Apples; n]
Grid_new(width, rows) ==
    Grid(width, [i \in 1..((width * rows) % U16) |-> "Apples"])

\* Grid::height
Grid_height(g) == (Len(g.mats) % U16) \div g.width

RECURSIVE widen_rows(_, _, _)
\* the loop of widen: for i from the last row down to the first, a cell is
\* inserted at i * width, counted from 0
widen_rows(v, i, width) ==
    IF i = 0 THEN v
    ELSE widen_rows(SubSeq(v, 1, i * width) \o <<"Apples">>
                        \o SubSeq(v, i * width + 1, Len(v)),
                    i - 1, width)

\* Grid::widen
Grid_widen(g) ==
    Grid((g.width + 1) % U16, widen_rows(g.mats, Grid_height(g), g.width))

RECURSIVE thin_rows(_, _, _)
\* the loop of thin: for i from the last row down to the first, the cell at
\* i * width - 1, counted from 0, is removed
thin_rows(v, i, width) ==
    IF i = 0 THEN v
    ELSE thin_rows(SubSeq(v, 1, i * width - 1) \o SubSeq(v, i * width + 1, Len(v)),
                   i - 1, width)

\* Grid::thin
Grid_thin(g) ==
    IF g.width <= 1 THEN g
    ELSE Grid(g.width - 1, thin_rows(g.mats, Grid_height(g), g.width))

\* Grid::heighten
Grid_heighten(g) == Grid(g.width, g.mats \o [i \in 1..g.width |-> "Apples"])

\* Grid::shorten; mats.len() - width is taken in usize, and when it wraps the
\* new length is far above the old one and truncate does nothing
Grid_shorten(g) ==
    IF Len(g.mats) < g.width \/ Len(g.mats) - g.width = 0 THEN g
    ELSE Grid(g.width, SubSeq(g.mats, 1, Len(g.mats) - g.width))

\* Grid::idx
idx(g, x, y) ==
    LET saturating_mul(a, b) == IF a * b >= U16 THEN U16 - 1 ELSE a * b
        saturating_add(a, b) == IF a + b >= U16 THEN U16 - 1 ELSE a + b
    IN  saturating_add(x, saturating_mul(y, g.width))

\* Grid::get: the material as a one-element sequence, or none
Grid_get(g, x, y) ==
    IF x < g.width /\ idx(g, x, y) < Len(g.mats) THEN <<g.mats[idx(g, x, y) + 1]>>
    ELSE <<>>

\* Grid::insert
Grid_insert(g, x, y, mat) ==
    IF x < g.width /\ idx(g, x, y) < Len(g.mats)
    THEN Grid(g.width, [g.mats EXCEPT ![idx(g, x, y) + 1] = mat])
    ELSE g

----------------------------------------------------------------------------
(* util *)

\* bool as i8
as_i8(b) == IF b THEN 1 ELSE 0

\* keyboard::is_key_pressed on the keys the keyboard context holds
is_key_pressed(held, k) == k \in held

\* a vertical axis that adds up the keys of each direction
ver_summed(held) ==
    as_i8(is_key_pressed(held, "S")) + as_i8(is_key_pressed(held, "Down"))
        - as_i8(is_key_pressed(held, "W")) - as_i8(is_key_pressed(held, "Up"))

\* util::ver
ver(held) ==
    as_i8(is_key_pressed(held, "S") \/ is_key_pressed(held, "Down"))
        - as_i8(is_key_pressed(held, "W") \/ is_key_pressed(held, "Up"))

\* util::hor
hor(held) ==
    as_i8(is_key_pressed(held, "D") \/ is_key_pressed(held, "Right"))
        - as_i8(is_key_pressed(held, "A") \/ is_key_pressed(held, "Left"))

\* the keyboard context after the event loop has noted a key event: the keys
\* is_key_pressed answers for
set_key(held, k, down) == IF down THEN held \cup {k} ELSE held \ {k}

----------------------------------------------------------------------------
(* ConsoleStatus *)

Closed == [tag |-> "Closed"]
Open(cursor, hidden) == [tag |-> "Open", cursor |-> cursor, cursor_hidden |-> hidden]

is_open(cs) == cs.tag = "Open"

\* open that captures the cursor again when the console is already open
open_recapture(cs, ctype, chidden) == Open(ctype, chidden)

\* ConsoleStatus::open: the status afterwards
open(cs, ctype, chidden) ==
    IF cs = Closed THEN Open(ctype, chidden) ELSE cs

\* close that forgets to restore the saved cursor
close_no_restore(cs, ctype, chidden) ==
    [status |-> Closed, cursor_type |-> ctype, cursor_hidden |-> chidden]

\* ConsoleStatus::close: the status and the platform cursor afterwards
close(cs, ctype, chidden) ==
    IF is_open(cs)
    THEN [status |-> Closed, cursor_type |-> cs.cursor, cursor_hidden |-> cs.cursor_hidden]
    ELSE [status |-> Closed, cursor_type |-> ctype, cursor_hidden |-> chidden]

----------------------------------------------------------------------------
(* Console *)

\* State::switch: the pending slot afterwards
switch(ss) == ss

\* Console::new: the history the console starts with
InitialHistory == raw_text_with(<<"Acheivements disabled.", "\n">>)

\* handle whose clear leaves the history as it is
handle_clear_kept(verb, h, sw, cont) ==
    CASE verb = <<>> \/ verb = CLEAR ->
            [history |-> h, switch_state |-> sw, continuing |-> cont, logs |-> <<>>]
      [] verb = RELOAD ->
            [history |-> h, switch_state |-> switch("Menu"), continuing |-> cont,
             logs |-> <<>>]
      [] verb = HELLO ->
            [history |-> h, switch_state |-> sw, continuing |-> cont,
             logs |-> << <<"Info", <<"Hello!">> >> >>]
      [] verb = QUIT ->
            [history |-> h, switch_state |-> sw, continuing |-> FALSE, logs |-> <<>>]
      [] OTHER ->
            [history |-> h, switch_state |-> sw, continuing |-> cont,
             logs |-> << <<"Warn", <<"  Unknown command `">> \o verb \o <<"'!">> >> >>]

\* handle whose reload does not replace a switch that is already pending
handle_reload_queued(verb, h, sw, cont) ==
    CASE verb = <<>> ->
            [history |-> h, switch_state |-> sw, continuing |-> cont, logs |-> <<>>]
      [] verb = CLEAR ->
            [history |-> raw_text_with(<<>>), switch_state |-> sw, continuing |-> cont,
             logs |-> <<>>]
      [] verb = RELOAD ->
            [history |-> h, switch_state |-> IF sw = "None" THEN "Menu" ELSE sw,
             continuing |-> cont, logs |-> <<>>]
      [] verb = HELLO ->
            [history |-> h, switch_state |-> sw, continuing |-> cont,
             logs |-> << <<"Info", <<"Hello!">> >> >>]
      [] verb = QUIT ->
            [history |-> h, switch_state |-> sw, continuing |-> FALSE, logs |-> <<>>]
      [] OTHER ->
            [history |-> h, switch_state |-> sw, continuing |-> cont,
             logs |-> << <<"Warn", <<"  Unknown command `">> \o verb \o <<"'!">> >> >>]

\* handle that says nothing about a word it does not know
handle_unknown_silent(verb, h, sw, cont) ==
    CASE verb = <<>> ->
            [history |-> h, switch_state |-> sw, continuing |-> cont, logs |-> <<>>]
      [] verb = CLEAR ->
            [history |-> raw_text_with(<<>>), switch_state |-> sw, continuing |-> cont,
             logs |-> <<>>]
      [] verb = RELOAD ->
            [history |-> h, switch_state |-> switch("Menu"), continuing |-> cont,
             logs |-> <<>>]
      [] verb = HELLO ->
            [history |-> h, switch_state |-> sw, continuing |-> cont,
             logs |-> << <<"Info", <<"Hello!">> >> >>]
      [] verb = QUIT ->
            [history |-> h, switch_state |-> sw, continuing |-> FALSE, logs |-> <<>>]
      [] OTHER ->
            [history |-> h, switch_state |-> sw, continuing |-> cont, logs |-> <<>>]

\* Console::handle: the command table, applied to the first argument.  logs are the
\* records the command emits, as <<level, message>>
handle(verb, h, sw, cont) ==
    CASE verb = <<>> ->
            [history |-> h, switch_state |-> sw, continuing |-> cont, logs |-> <<>>]
      [] verb = CLEAR ->
            [history |-> raw_text_with(<<>>), switch_state |-> sw, continuing |-> cont,
             logs |-> <<>>]
      [] verb = RELOAD ->
            [history |-> h, switch_state |-> switch("Menu"), continuing |-> cont,
             logs |-> <<>>]
      [] verb = HELLO ->
            [history |-> h, switch_state |-> sw, continuing |-> cont,
             logs |-> << <<"Info", <<"Hello!">> >> >>]
      [] verb = QUIT ->
            [history |-> h, switch_state |-> sw, continuing |-> FALSE, logs |-> <<>>]
      [] OTHER ->
            [history |-> h, switch_state |-> sw, continuing |-> cont,
             logs |-> << <<"Warn", <<"  Unknown command `">> \o verb \o <<"'!">> >> >>]

\* the line execute echoes into the history: format!("> {}\n", prompt)
echo(p) == Frag(<<">", " ">> \o p \o <<"\n">>, "None")

RECURSIVE log_all(_, _)
\* the buffer after logging the records of logs in order
log_all(frags, logs) ==
    IF logs = <<>> THEN frags
    ELSE log_all(log(frags, Head(logs)[1], Head(logs)[2]), Tail(logs))

\* Console::execute: echo the prompt, clear it, split it and handle the command.
\* handle reads args[0], which panics when there is no piece at all
execute(p, h, sw, cont, frags) ==
    LET args == split(p)
        r == handle(IF args = <<>> THEN <<>> ELSE args[1], Append(h, echo(p)), sw, cont)
    IN  [history |-> r.history, prompt |-> <<>>, switch_state |-> r.switch_state,
         continuing |-> r.continuing, fragments |-> log_all(frags, r.logs),
         panicked |-> args = <<>>]

\* a notice that does not name the character
unknown_control_unnamed(c) == Frag(<<"Unknown control character ", "\n">>, "None")

\* the notice for a control character the console does not know
unknown_control(c) == Frag(<<"Unknown control character ", c, "\n">>, "None")

----------------------------------------------------------------------------
(* Screens *)

Key(code) == [kind |-> "Key", code |-> code]
Mouse(btn) == [kind |-> "Mouse", code |-> btn]

Point2(x, y) == [x |-> x, y |-> y]

\* Button::in_bounds for the one button of Menu, whose rectangle is
\* button_rect(w, 0) == {x: 3w/7, y: 64, w: w/7, h: 64}
in_bounds(p) ==
    /\ 7 * p.x >= 3 * Width
    /\ 7 * p.x <= 4 * Width
    /\ p.y >= 64
    /\ p.y <= 64 + 64

\* Menu::event_up: the pending switch afterwards
Menu_event_up(ev, m, sw) ==
    IF ev = Mouse("Left") /\ in_bounds(m) THEN switch("Play") ELSE sw

\* GameState::event_up of the active screen: the pending switch afterwards
\* (Play::event_up does nothing)
event_up(g, ev, m, sw) ==
    IF g = "Menu" THEN Menu_event_up(ev, m, sw) ELSE sw

----------------------------------------------------------------------------
(* Master: the decisions of the handlers *)

\* key_down_event that forwards to the screen whether or not the console is open
key_down_route_ungated(keycode, shift, repeat, isopen) ==
    IF repeat THEN "return"
    ELSE IF keycode = "Escape" /\ shift THEN "quit"
    ELSE "event_down"

\* key_down_event that looks at the console before the quit combination
key_down_route_console_first(keycode, shift, repeat, isopen) ==
    IF repeat THEN "return"
    ELSE IF isopen THEN "none"
    ELSE IF keycode = "Escape" /\ shift THEN "quit"
    ELSE "event_down"

\* Master::key_down_event: where the event goes
key_down_route(keycode, shift, repeat, isopen) ==
    IF repeat THEN "return"
    ELSE IF keycode = "Escape" /\ shift THEN "quit"
    ELSE IF ~isopen THEN "event_down"
    ELSE "none"

\* Master::key_up_event: where the event goes
key_up_route(keycode, isopen) ==
    IF ~isopen
    THEN (IF keycode = "Tab" THEN "open" ELSE "event_up")
    ELSE "none"

\* Master::mouse_button_down_event: where the event goes
mouse_button_down_route(isopen) == IF ~isopen THEN "event_down" ELSE "none"

\* Master::mouse_button_up_event: where the event goes
mouse_button_up_route(isopen) == IF ~isopen THEN "event_up" ELSE "none"

\* a mouse_motion_event that shows the saved cursor over the panel and the arrow
\* below it
mouse_motion_cursor_swapped(cs, y, ctype, chidden) ==
    IF is_open(cs)
    THEN (IF y > PROMPT_Y
          THEN [cursor_type |-> "Default", cursor_hidden |-> FALSE]
          ELSE [cursor_type |-> cs.cursor, cursor_hidden |-> cs.cursor_hidden])
    ELSE [cursor_type |-> ctype, cursor_hidden |-> chidden]

\* Master::mouse_motion_event: the platform cursor afterwards
mouse_motion_cursor(cs, y, ctype, chidden) ==
    IF is_open(cs)
    THEN (IF y > PROMPT_Y
          THEN [cursor_type |-> cs.cursor, cursor_hidden |-> cs.cursor_hidden]
          ELSE [cursor_type |-> "Default", cursor_hidden |-> FALSE])
    ELSE [cursor_type |-> ctype, cursor_hidden |-> chidden]

\* a transition check that goes back to Menu when nothing is pending
transition_unasked(sw, g, ctype, chidden, built) ==
    IF sw = "None"
    THEN [switch_state |-> "None", gs |-> "Menu", cursor_type |-> ctype,
          cursor_hidden |-> chidden, new |-> <<>>, failed |-> FALSE]
    ELSE [switch_state |-> "None", gs |-> IF built THEN sw ELSE g,
          cursor_type |-> "Default", cursor_hidden |-> (sw = "Play"),
          new |-> <<sw>>, failed |-> ~built]

\* a transition check that gives up the old screen before the new one is built
transition_half_built(sw, g, ctype, chidden, built) ==
    IF sw = "None"
    THEN [switch_state |-> "None", gs |-> g, cursor_type |-> ctype,
          cursor_hidden |-> chidden, new |-> <<>>, failed |-> FALSE]
    ELSE [switch_state |-> "None", gs |-> sw,
          cursor_type |-> "Default", cursor_hidden |-> (sw = "Play"),
          new |-> <<sw>>, failed |-> ~built]

\* a transition check that reads the slot without taking it
transition_slot_kept(sw, g, ctype, chidden, built) ==
    IF sw = "None"
    THEN [switch_state |-> "None", gs |-> g, cursor_type |-> ctype,
          cursor_hidden |-> chidden, new |-> <<>>, failed |-> FALSE]
    ELSE [switch_state |-> sw, gs |-> IF built THEN sw ELSE g,
          cursor_type |-> "Default", cursor_hidden |-> (sw = "Play"),
          new |-> <<sw>>, failed |-> ~built]

\* Master::update, the transition check: the slot is taken, the cursor reset and the
\* screen constructed.  built tells whether the construction succeeds.  Play::new
\* hides the cursor before anything of it can fail
transition(sw, g, ctype, chidden, built) ==
    IF sw = "None"
    THEN [switch_state |-> "None", gs |-> g, cursor_type |-> ctype,
          cursor_hidden |-> chidden, new |-> <<>>, failed |-> FALSE]
    ELSE [switch_state |-> "None", gs |-> IF built THEN sw ELSE g,
          cursor_type |-> "Default", cursor_hidden |-> (sw = "Play"),
          new |-> <<sw>>, failed |-> ~built]

\* timestep loops that run the screen whether or not the console is open
timestep_unfrozen(isopen, due) == [update |-> due, logic |-> 1, residual |-> 0]

\* Master::update, the fixed-timestep loops: how often the screen's update and
\* logic run when due steps are owed, and the steps still owed afterwards
timestep(isopen, due) ==
    IF isopen
    THEN [update |-> 0, logic |-> 0, residual |-> 0]
    ELSE [update |-> due, logic |-> 1, residual |-> 0]

\* a loop body that rebuilds the history from all its fragments
skip_none(h) == raw_text \o h

\* Master::update, the body of the trimming loop: a new Text is folded from the
\* fragments of the history but the first
skip_first(h) == raw_text \o Tail(h)

RECURSIVE trim_newest(_)
\* a trimming loop that drops the last fragment instead of the first
trim_newest(h) ==
    IF height(h) > PROMPT_Y THEN trim_newest(SubSeq(h, 1, Len(h) - 1)) ELSE h

RECURSIVE trim(_)
\* Master::update, the loop that drops the first fragment while the history is
\* higher than the prompt line
trim(h) ==
    IF height(h) > PROMPT_Y THEN trim(Tail(h) \o raw_text) ELSE h

\* a drain that adds the fragments to the history and leaves them in the buffer
drain_buffer_kept(h, frags) == [history |-> trim(h \o frags), fragments |-> frags]

\* Master::update with the console open: the drained fragments are added to the
\* history, which is then trimmed
drain(h, frags) ==
    LET e == empty(frags)
    IN  [history |-> trim(h \o e.taken), fragments |-> e.left]

----------------------------------------------------------------------------
(* Observation of a handler run: the state it started from, its input and the
   calls it made to the active screen *)

Snapshot ==
    [gs |-> gs, switch_state |-> switch_state, mouse |-> mouse,
     console_status |-> console_status, history |-> history, prompt |-> prompt,
     fragments |-> fragments, continuing |-> continuing, cursor_type |-> cursor_type,
     cursor_hidden |-> cursor_hidden, residual |-> residual]

NoCalls == [event_down |-> 0, event_up |-> 0, update |-> 0, logic |-> 0, new |-> <<>>]

Observe(op, arg, calls) ==
    /\ last' = [op |-> op, arg |-> arg, pre |-> Snapshot, calls |-> calls]
    /\ cursor_at_open' =
            IF ~is_open(console_status) /\ is_open(console_status')
            THEN [cursor_type |-> cursor_type, cursor_hidden |-> cursor_hidden]
            ELSE cursor_at_open

----------------------------------------------------------------------------
(* The inputs *)

KeyCodes == {"Escape", "Tab", "W"}
MouseButtons == {"Left", "Right"}
\* over the Play button, in the corner of the console panel, below the panel
MousePoints == {Point2(576, 96), Point2(0, 0), Point2(576, 300)}

\* what the clipboard returns: a text, or an error
Clip(text) == [ok |-> TRUE, text |-> text]
ClipErr == [ok |-> FALSE, text |-> <<>>]

\* a clipboard text of five lines, the first of which starts with a blank
FiveLines == <<" ", "x", "\n", "x", "\n", "x", "\n", "x", "\n", "x">>

\* the beginnings of the lines of a set
Prefixes(lines) == UNION {{SubSeq(l, 1, n) : n \in 0..Len(l)} : l \in lines}

\* the characters of the lines of a set that are typed as text
Printable(lines) ==
    {c \in UNION {{l[i] : i \in 1..Len(l)} : l \in lines} : ~is_control(c)}

ControlChars == {BACKSPACE, DELETE, ESCAPE, TAB, PASTE, RETURN, SOH}

\* what the operator does to reload from the console: paste the word, run it, leave
ReloadChars == {PASTE, RETURN, ESCAPE}
ReloadLines == {RELOAD}
ReloadClips == {Clip(RELOAD), ClipErr}

\* what the operator does at the console: type clear or hello, paste five lines,
\* run them, press any control key
ConsoleChars == ControlChars \cup Printable({CLEAR, HELLO})
ConsoleLines == {CLEAR, HELLO, FiveLines}
ConsoleClips == {Clip(FiveLines), ClipErr}

\* a line that is no command
RELAD == <<"r", "e", "l", "a", "d">>

\* what the operator types by hand, taking characters back: reload, and a slip of it
TypingLines == {RELOAD, RELAD}
TypingChars == Printable(TypingLines) \cup {BACKSPACE, RETURN}

\* what the operator does to switch screens with a record in the log buffer: paste
\* reload or hello, run it, leave
SwitchChars == {PASTE, RETURN, ESCAPE}
SwitchLines == {RELOAD, HELLO}
SwitchClips == {Clip(RELOAD), Clip(HELLO), ClipErr}

\* the command lines of every kind: empty, a blank, a word after a blank, a word
\* that is no command, a command
CommandLines == {<<>>, <<" ">>, <<" ", "d">>, <<"d">>, QUIT}
CommandChars == Printable(CommandLines) \cup {RETURN}
CommandClips == {ClipErr}

\* the keys util::ver and util::hor ask for that the player uses
MoveKeys == {"W", "S", "Up", "Down", "A", "D"}

\* the threads that log, and the thread that drains
LogThreads == {"t1", "t2"}
MainThread == "main"
Threads == LogThreads \cup {MainThread}

\* a log Record: the target names the module it comes from
Record(target, level, args) == [target |-> target, level |-> level, args |-> args]
NoRecord == Record(<<>>, "Info", <<>>)

\* where records come from: this crate's game module with a warning, this crate
\* with a notice, the graphics library, and a crate whose name is a beginning of
\* this crate's
LogSources ==
    {<<COWFARG \o <<":", ":", "g", "a", "m", "e">>, "Warn">>,
     <<COWFARG, "Info">>,
     <<<<"g", "g", "e", "z">>, "Warn">>,
     <<<<"c", "o", "w">>, "Info">>}

\* a thread that is not in a call of the logger
Idle == [pc |-> "idle", rec |-> NoRecord, local |-> <<>>]

----------------------------------------------------------------------------
(* Master::new *)

Init ==
    /\ gs = "Menu"
    /\ switch_state = "None"
    /\ mouse = Point2(0, 0)
    /\ console_status = Closed
    /\ history = InitialHistory
    /\ prompt = <<>>
    /\ fragments = <<>>
    /\ continuing = TRUE
    /\ cursor_type = "Default"
    /\ cursor_hidden = FALSE
    /\ residual = 0
    /\ exit = "none"
    /\ last = [op |-> "new", arg |-> <<>>, pre |-> <<>>, calls |-> NoCalls]
    /\ cursor_at_open = [cursor_type |-> "Default", cursor_hidden |-> FALSE]
    /\ keys = <<>>
    /\ pressed = {}
    /\ moves = <<>>
    /\ holder = "none"
    /\ threads = [t \in Threads |-> Idle]
    /\ drained = <<>>
    /\ pushed = <<>>
    /\ logged = <<>>
    /\ grid = Grid(0, <<>>)
    /\ overflow_checks = FALSE
    /\ grid_last = [op |-> "none", arg |-> <<>>, pre |-> Grid(0, <<>>), panicked |-> FALSE]

\* event::run is still looping
Running == exit = "none"

----------------------------------------------------------------------------
(* The handlers of Master *)

\* Master::update after a tick in which elapsed whole steps passed
update(elapsed, built) ==
    LET t == transition(switch_state, gs, cursor_type, cursor_hidden, built)
        due == residual + elapsed
        isopen == is_open(console_status)
        ts == timestep(isopen, due)
        d == drain(history, fragments)
    IN  /\ switch_state' = t.switch_state
        /\ gs' = t.gs
        /\ cursor_type' = t.cursor_type
        /\ cursor_hidden' = t.cursor_hidden
        /\ residual' = IF t.failed THEN due ELSE ts.residual
        /\ history' = IF ~t.failed /\ isopen THEN d.history ELSE history
        /\ fragments' = IF ~t.failed /\ isopen THEN d.fragments ELSE fragments
        /\ exit' = IF t.failed THEN "err" ELSE IF continuing THEN "none" ELSE "ok"
        /\ UNCHANGED <<mouse, console_status, prompt, continuing>>
        /\ Observe("update", <<elapsed, t.failed>>,
                   [NoCalls EXCEPT !.new = t.new,
                                   !.update = IF t.failed THEN 0 ELSE ts.update,
                                   !.logic = IF t.failed THEN 0 ELSE ts.logic])

\* Master::draw: the screen, its hud and the open console are drawn from what
\* Master holds; drawn tells whether every drawing call succeeds
draw(drawn) ==
    /\ exit' = IF drawn THEN exit ELSE "err"
    /\ UNCHANGED <<gs, switch_state, mouse, console_status, history, prompt,
                   fragments, continuing, cursor_type, cursor_hidden, residual>>
    /\ Observe("draw", <<drawn>>, NoCalls)

\* Master::key_down_event
key_down_event(keycode, shift, repeat) ==
    LET route == key_down_route(keycode, shift, repeat, is_open(console_status))
    IN  /\ continuing' = IF route = "quit" THEN FALSE ELSE continuing
        /\ UNCHANGED <<gs, switch_state, mouse, console_status, history, prompt,
                       fragments, cursor_type, cursor_hidden, residual, exit>>
        /\ Observe("key_down_event", <<keycode, shift, repeat>>,
                   [NoCalls EXCEPT !.event_down = IF route = "event_down" THEN 1 ELSE 0])

\* Master::key_up_event
key_up_event(keycode) ==
    LET route == key_up_route(keycode, is_open(console_status))
    IN  /\ console_status' =
                IF route = "open"
                THEN open(console_status, cursor_type, cursor_hidden)
                ELSE console_status
        /\ switch_state' =
                IF route = "event_up"
                THEN event_up(gs, Key(keycode), mouse, switch_state)
                ELSE switch_state
        /\ UNCHANGED <<gs, mouse, history, prompt, fragments, continuing,
                       cursor_type, cursor_hidden, residual, exit>>
        /\ Observe("key_up_event", <<keycode>>,
                   [NoCalls EXCEPT !.event_up = IF route = "event_up" THEN 1 ELSE 0])

\* Master::mouse_button_down_event
mouse_button_down_event(btn) ==
    LET route == mouse_button_down_route(is_open(console_status))
    IN  /\ UNCHANGED prog
        /\ Observe("mouse_button_down_event", <<btn>>,
                   [NoCalls EXCEPT !.event_down = IF route = "event_down" THEN 1 ELSE 0])

\* Master::mouse_button_up_event
mouse_button_up_event(btn) ==
    LET route == mouse_button_up_route(is_open(console_status))
    IN  /\ switch_state' =
                IF route = "event_up"
                THEN event_up(gs, Mouse(btn), mouse, switch_state)
                ELSE switch_state
        /\ UNCHANGED <<gs, mouse, console_status, history, prompt, fragments,
                       continuing, cursor_type, cursor_hidden, residual, exit>>
        /\ Observe("mouse_button_up_event", <<btn>>,
                   [NoCalls EXCEPT !.event_up = IF route = "event_up" THEN 1 ELSE 0])

\* Master::mouse_motion_event
mouse_motion_event(p) ==
    LET c == mouse_motion_cursor(console_status, p.y, cursor_type, cursor_hidden)
    IN  /\ mouse' = p
        /\ cursor_type' = c.cursor_type
        /\ cursor_hidden' = c.cursor_hidden
        /\ UNCHANGED <<gs, switch_state, console_status, history, prompt, fragments,
                       continuing, residual, exit>>
        /\ Observe("mouse_motion_event", <<p>>, NoCalls)

\* Master::text_input_event.  clip is what the clipboard returns to a paste
text_input_event(c, clip) ==
    LET isopen == is_open(console_status)
        cl == close(console_status, cursor_type, cursor_hidden)
        ex == execute(prompt, history, switch_state, continuing, fragments)
        closes == isopen /\ c = ESCAPE
        runs == isopen /\ c = RETURN
        pasted == isopen /\ c = PASTE
        panics == (pasted /\ clip = ClipErr) \/ (runs /\ ex.panicked)
    IN  /\ prompt' =
                IF ~isopen THEN prompt
                ELSE IF ~is_control(c) THEN Append(prompt, c)
                ELSE IF c = BACKSPACE THEN pop(prompt)
                ELSE IF c = PASTE /\ clip # ClipErr THEN prompt \o clip.text
                ELSE IF c = RETURN THEN ex.prompt
                ELSE prompt
        /\ console_status' = IF closes THEN cl.status ELSE console_status
        /\ cursor_type' = IF closes THEN cl.cursor_type ELSE cursor_type
        /\ cursor_hidden' = IF closes THEN cl.cursor_hidden ELSE cursor_hidden
        /\ history' =
                IF runs THEN ex.history
                ELSE IF isopen /\ is_control(c)
                        /\ c \notin {BACKSPACE, DELETE, ESCAPE, TAB, PASTE, RETURN}
                     THEN Append(history, unknown_control(c))
                ELSE history
        /\ switch_state' = IF runs THEN ex.switch_state ELSE switch_state
        /\ continuing' = IF runs THEN ex.continuing ELSE continuing
        /\ fragments' = IF runs THEN ex.fragments ELSE fragments
        /\ exit' = IF panics THEN "panic" ELSE exit
        /\ UNCHANGED <<gs, mouse, residual>>
        /\ Observe("text_input_event", IF c = PASTE THEN <<c, clip>> ELSE <<c>>, NoCalls)

\* ConsoleStatus::open, called on the status of Master.  Master itself calls open
\* only from key_up_event and close only from text_input_event; calling the two
\* public methods in any state reaches no program state the handlers do not reach
ConsoleStatus_open ==
    /\ console_status' = open(console_status, cursor_type, cursor_hidden)
    /\ UNCHANGED <<gs, switch_state, mouse, history, prompt, fragments, continuing,
                   cursor_type, cursor_hidden, residual, exit>>
    /\ Observe("open", <<>>, NoCalls)

\* ConsoleStatus::close, called on the status of Master
ConsoleStatus_close ==
    LET cl == close(console_status, cursor_type, cursor_hidden)
    IN  /\ console_status' = cl.status
        /\ cursor_type' = cl.cursor_type
        /\ cursor_hidden' = cl.cursor_hidden
        /\ UNCHANGED <<gs, switch_state, mouse, history, prompt, fragments, continuing,
                       residual, exit>>
        /\ Observe("close", <<>>, NoCalls)

----------------------------------------------------------------------------
(* The events the platform delivers while event::run loops *)

\* the history and the log buffer have room for what a character adds
Typable(lines, c, clip) ==
    IF ~is_open(console_status) THEN TRUE
    ELSE IF ~is_control(c) THEN Append(prompt, c) \in Prefixes(lines)
    ELSE IF c = PASTE THEN clip = ClipErr \/ (prompt \o clip.text) \in Prefixes(lines)
    ELSE IF c = RETURN
         THEN /\ prompt \in lines
              /\ Len(history) + Len(fragments) + 2 <= MaxHistory
    ELSE IF c = SOH THEN Len(history) + Len(fragments) + 1 <= MaxHistory
    ELSE TRUE

Update ==
    /\ Running
    /\ \E elapsed \in 0..MaxSteps, built \in BOOLEAN :
          /\ switch_state = "None" => built
          /\ update(elapsed, built)
    /\ UNCHANGED aux

KeyDown ==
    /\ Running
    /\ \E keycode \in KeyCodes, shift \in BOOLEAN, repeat \in BOOLEAN :
          key_down_event(keycode, shift, repeat)
    /\ UNCHANGED aux

KeyUp ==
    /\ Running
    /\ \E keycode \in KeyCodes : key_up_event(keycode)
    /\ UNCHANGED aux

MouseDown ==
    /\ Running
    /\ \E btn \in MouseButtons : mouse_button_down_event(btn)
    /\ UNCHANGED aux

MouseUp ==
    /\ Running
    /\ \E btn \in MouseButtons : mouse_button_up_event(btn)
    /\ UNCHANGED aux

MouseMotion ==
    /\ Running
    /\ \E p \in MousePoints : mouse_motion_event(p)
    /\ UNCHANGED aux

TextInputOf(chars, lines, clips) ==
    /\ Running
    /\ \E c \in chars, clip \in clips :
          /\ c # PASTE => clip = ClipErr
          /\ Typable(lines, c, clip)
          /\ text_input_event(c, clip)
    /\ UNCHANGED aux

\* the operator pastes reload, runs it and leaves the console
TextInput == TextInputOf(ReloadChars, ReloadLines, ReloadClips)

\* the operator types or pastes lines into the open console, runs them, presses
\* control keys
ConsoleInput == TextInputOf(ConsoleChars, ConsoleLines, ConsoleClips)

\* the toggle key is released
ToggleKeyUp ==
    /\ Running
    /\ key_up_event("Tab")
    /\ UNCHANGED aux

OpenConsole ==
    /\ Running
    /\ ConsoleStatus_open
    /\ UNCHANGED aux

CloseConsole ==
    /\ Running
    /\ ConsoleStatus_close
    /\ UNCHANGED aux

Next ==
    \/ Update
    \/ KeyDown
    \/ KeyUp
    \/ MouseDown
    \/ MouseUp
    \/ MouseMotion
    \/ TextInput
    \/ OpenConsole
    \/ CloseConsole

Spec == Init /\ [][Next]_vars

Draw ==
    /\ Running
    /\ \E drawn \in BOOLEAN : draw(drawn)
    /\ UNCHANGED aux

\* every handler of Master, draw included
NextScreens ==
    \/ Update
    \/ Draw
    \/ KeyDown
    \/ KeyUp
    \/ MouseDown
    \/ MouseUp
    \/ MouseMotion
    \/ TextInput
    \/ OpenConsole
    \/ CloseConsole

SpecScreens == Init /\ [][NextScreens]_vars

\* the console at work: frames, the toggle key and text input
NextConsole ==
    \/ Update
    \/ ToggleKeyUp
    \/ ConsoleInput

SpecConsole == Init /\ [][NextConsole]_vars

\* the operator pastes reload or hello, runs it and leaves the console
SwitchInput == TextInputOf(SwitchChars, SwitchLines, SwitchClips)

\* switching between the screens, by the Play button and by reload, with the
\* console at work
NextSwitch ==
    \/ Update
    \/ ToggleKeyUp
    \/ MouseMotion
    \/ MouseUp
    \/ SwitchInput

SpecSwitch == Init /\ [][NextSwitch]_vars

\* the operator types command lines of every kind and runs them
CommandInput == TextInputOf(CommandChars, CommandLines, CommandClips)

NextCommands ==
    \/ Update
    \/ ToggleKeyUp
    \/ CommandInput

SpecCommands == Init /\ [][NextCommands]_vars

----------------------------------------------------------------------------
(* Typing by hand *)

\* the last character typed was the Return that ran a line
LineRun == keys # <<>> /\ keys[Len(keys)] = RETURN

\* the operator types a character, takes one back or presses Return
Typing ==
    /\ Running
    /\ \E c \in TypingChars :
          /\ LineRun \/ Len(keys) < MaxKeys
          /\ Typable(TypingLines, c, ClipErr)
          /\ text_input_event(c, ClipErr)
          /\ keys' = IF ~is_open(console_status) THEN keys
                      ELSE IF LineRun THEN <<c>>
                      ELSE Append(keys, c)
    /\ UNCHANGED <<pressed, moves, holder, threads, drained, pushed, logged,
                   grid, overflow_checks, grid_last>>

NextTyping ==
    \/ Update
    \/ ToggleKeyUp
    \/ Typing

SpecTyping == Init /\ [][NextTyping]_vars

----------------------------------------------------------------------------
(* The movement keys *)

\* the latest key events with one more
Noted(dir, k) ==
    IF Len(moves) < MaxMoves THEN Append(moves, <<dir, k>>)
    ELSE Append(Tail(moves), <<dir, k>>)

\* a movement key goes down: the event loop notes it and calls the handler
MoveKeyDown ==
    /\ Running
    /\ \E k \in MoveKeys :
          /\ pressed' = set_key(pressed, k, TRUE)
          /\ key_down_event(k, FALSE, FALSE)
          /\ moves' = Noted("down", k)
    /\ UNCHANGED <<keys, holder, threads, drained, pushed, logged,
                   grid, overflow_checks, grid_last>>

\* a movement key goes up, whether or not it was down
MoveKeyUp ==
    /\ Running
    /\ \E k \in MoveKeys :
          /\ pressed' = set_key(pressed, k, FALSE)
          /\ key_up_event(k)
          /\ moves' = Noted("up", k)
    /\ UNCHANGED <<keys, holder, threads, drained, pushed, logged,
                   grid, overflow_checks, grid_last>>

NextMovement ==
    \/ MoveKeyDown
    \/ MoveKeyUp

SpecMovement == Init /\ [][NextMovement]_vars

----------------------------------------------------------------------------
(* ConsoleLogger called from several threads *)

\* what the calls of the logger leave alone
outside_logger ==
    <<gs, switch_state, mouse, console_status, history, prompt, continuing,
      cursor_type, cursor_hidden, residual, exit, last, cursor_at_open,
      keys, pressed, moves, grid, overflow_checks, grid_last>>

\* the calls of log begun so far
Begun == Len(logged) + Cardinality({t \in LogThreads : threads[t].pc # "idle"})

\* ConsoleLogger::log, entered by thread t: a record the logger is not enabled for
\* is dropped at once; for the others the line is printed and the fragment made
log_enter(t, record) ==
    /\ threads[t].pc = "idle"
    /\ threads' = [threads EXCEPT ![t] =
            IF enabled(record.target)
            THEN [pc |-> "lock", rec |-> record, local |-> <<>>]
            ELSE Idle]
    /\ logged' = IF enabled(record.target) THEN logged ELSE Append(logged, record)
    /\ UNCHANGED <<fragments, holder, drained, pushed>>

\* self.fragments.lock().unwrap()
log_lock(t) ==
    /\ threads[t].pc = "lock"
    /\ can_lock(holder)
    /\ holder' = t
    /\ threads' = [threads EXCEPT ![t].pc = "load"]
    /\ UNCHANGED <<fragments, drained, pushed, logged>>

\* frags.push, reading the vector
log_load(t) ==
    /\ threads[t].pc = "load"
    /\ threads' = [threads EXCEPT ![t].pc = "store", ![t].local = fragments]
    /\ UNCHANGED <<fragments, holder, drained, pushed, logged>>

\* frags.push, writing the vector with the fragment at its end
log_store(t) ==
    LET after == log(threads[t].local, threads[t].rec.level, threads[t].rec.args)
    IN  /\ threads[t].pc = "store"
        /\ fragments' = after
        /\ pushed' = Append(pushed, after[Len(after)])
        /\ threads' = [threads EXCEPT ![t].pc = "unlock"]
        /\ UNCHANGED <<holder, drained, logged>>

\* the guard is dropped and log returns
log_return(t) ==
    /\ threads[t].pc = "unlock"
    /\ holder' = "none"
    /\ logged' = Append(logged, threads[t].rec)
    /\ threads' = [threads EXCEPT ![t] = Idle]
    /\ UNCHANGED <<fragments, drained, pushed>>

\* ConsoleLogger::empty, entered by thread t
empty_enter(t) ==
    /\ threads[t].pc = "idle"
    /\ threads' = [threads EXCEPT ![t].pc = "lock"]
    /\ UNCHANGED <<fragments, holder, drained, pushed, logged>>

\* self.fragments.lock().unwrap()
empty_lock(t) ==
    /\ threads[t].pc = "lock"
    /\ can_lock(holder)
    /\ holder' = t
    /\ threads' = [threads EXCEPT ![t].pc = "load"]
    /\ UNCHANGED <<fragments, drained, pushed, logged>>

\* mem::replace, reading the vector
empty_load(t) ==
    /\ threads[t].pc = "load"
    /\ threads' = [threads EXCEPT ![t].pc = "store", ![t].local = fragments]
    /\ UNCHANGED <<fragments, holder, drained, pushed, logged>>

\* mem::replace, writing the new vector; the guard is dropped and the old vector
\* returned as an iterator
empty_store(t) ==
    LET e == empty(threads[t].local)
    IN  /\ threads[t].pc = "store"
        /\ fragments' = e.left
        /\ holder' = "none"
        /\ drained' = Append(drained, [taken |-> e.taken, pushes |-> Len(pushed)])
        /\ threads' = [threads EXCEPT ![t] = Idle]
        /\ UNCHANGED <<pushed, logged>>

LogEnter ==
    /\ Begun < MaxRecords
    /\ \E t \in LogThreads, src \in LogSources :
          log_enter(t, Record(src[1], src[2], <<ToString(Begun + 1)>>))
    /\ UNCHANGED outside_logger

LogLock ==
    /\ \E t \in LogThreads : log_lock(t)
    /\ UNCHANGED outside_logger

LogLoad ==
    /\ \E t \in LogThreads : log_load(t)
    /\ UNCHANGED outside_logger

LogStore ==
    /\ \E t \in LogThreads : log_store(t)
    /\ UNCHANGED outside_logger

LogReturn ==
    /\ \E t \in LogThreads : log_return(t)
    /\ UNCHANGED outside_logger

EmptyEnter ==
    /\ Len(drained) < MaxDrains
    /\ empty_enter(MainThread)
    /\ UNCHANGED outside_logger

EmptyLock ==
    /\ empty_lock(MainThread)
    /\ UNCHANGED outside_logger

EmptyLoad ==
    /\ empty_load(MainThread)
    /\ UNCHANGED outside_logger

EmptyStore ==
    /\ empty_store(MainThread)
    /\ UNCHANGED outside_logger

NextLogger ==
    \/ LogEnter
    \/ LogLock
    \/ LogLoad
    \/ LogStore
    \/ LogReturn
    \/ EmptyEnter
    \/ EmptyLock
    \/ EmptyLoad
    \/ EmptyStore

SpecLogger == Init /\ [][NextLogger]_vars

----------------------------------------------------------------------------
(* The trimming loop of Master::update on its own *)

RECURSIVE Lines(_)
\* a text of n lines
Lines(n) == IF n = 0 THEN <<>> ELSE <<"x", "\n">> \o Lines(n - 1)

\* the fragments a history is made of: a line, an echoed paste of five lines, a
\* text that alone is higher than the prompt line, the empty fragment clear leaves
TrimFrags == {Frag(Lines(1), "None"), Frag(Lines(5), "YELLOW"),
              Frag(Lines(12), "None"), Frag(<<>>, "None")}

\* the histories of up to MaxFrags fragments
TrimHistories == UNION {[1..n -> TrimFrags] : n \in 0..MaxFrags}

\* update has reached the trimming loop with the console open
InitTrim ==
    /\ history \in TrimHistories
    /\ console_status = Open("Default", FALSE)
    /\ gs = "Menu"
    /\ switch_state = "None"
    /\ mouse = Point2(0, 0)
    /\ prompt = <<>>
    /\ fragments = <<>>
    /\ continuing = TRUE
    /\ cursor_type = "Default"
    /\ cursor_hidden = FALSE
    /\ residual = 0
    /\ exit = "none"
    /\ last = [op |-> "new", arg |-> <<>>, pre |-> <<>>, calls |-> NoCalls]
    /\ cursor_at_open = [cursor_type |-> "Default", cursor_hidden |-> FALSE]
    /\ keys = <<>>
    /\ pressed = {}
    /\ moves = <<>>
    /\ holder = "none"
    /\ threads = [t \in Threads |-> Idle]
    /\ drained = <<>>
    /\ pushed = <<>>
    /\ logged = <<>>
    /\ grid = Grid(0, <<>>)
    /\ overflow_checks = FALSE
    /\ grid_last = [op |-> "none", arg |-> <<>>, pre |-> Grid(0, <<>>), panicked |-> FALSE]

\* one turn of the loop: the condition holds and the body runs
trim_step ==
    /\ height(history) > PROMPT_Y
    /\ history' = skip_first(history)
    /\ UNCHANGED <<gs, switch_state, mouse, console_status, prompt, fragments,
                   continuing, cursor_type, cursor_hidden, residual, exit>>
    /\ Observe("trim", <<>>, NoCalls)

TrimStep ==
    /\ trim_step
    /\ UNCHANGED aux

NextTrim == TrimStep

SpecTrim == InitTrim /\ [][NextTrim]_vars

----------------------------------------------------------------------------
(* A Grid on its own *)

\* the sizes a Grid is made with: small ones, and one whose cell count does not
\* fit a u16
GridSizes == {<<1, 1>>, <<2, 1>>, <<1, 2>>, <<2, 2>>, <<256, 256>>}

\* Grid::new has been called: width * height in u16 overflows for the last size,
\* which is a panic in a build that checks and a wrapped product in one that
\* does not
InitGrid ==
    /\ overflow_checks \in BOOLEAN
    /\ \E size \in GridSizes :
          LET panics == overflow_checks /\ size[1] * size[2] >= U16
          IN  /\ grid = IF panics THEN Grid(0, <<>>) ELSE Grid_new(size[1], size[2])
              /\ grid_last = [op |-> "new", arg |-> size, pre |-> Grid(0, <<>>),
                              panicked |-> panics]
    /\ gs = "Menu"
    /\ switch_state = "None"
    /\ mouse = Point2(0, 0)
    /\ console_status = Closed
    /\ history = InitialHistory
    /\ prompt = <<>>
    /\ fragments = <<>>
    /\ continuing = TRUE
    /\ cursor_type = "Default"
    /\ cursor_hidden = FALSE
    /\ residual = 0
    /\ exit = "none"
    /\ last = [op |-> "new", arg |-> <<>>, pre |-> <<>>, calls |-> NoCalls]
    /\ cursor_at_open = [cursor_type |-> "Default", cursor_hidden |-> FALSE]
    /\ keys = <<>>
    /\ pressed = {}
    /\ moves = <<>>
    /\ holder = "none"
    /\ threads = [t \in Threads |-> Idle]
    /\ drained = <<>>
    /\ pushed = <<>>
    /\ logged = <<>>

\* an operation on the Grid, which is there when nothing has panicked
GridOp(op, arg, after, panics) ==
    /\ ~grid_last.panicked
    /\ grid' = after
    /\ grid_last' = [op |-> op, arg |-> arg, pre |-> grid, panicked |-> panics]
    /\ UNCHANGED <<gs, switch_state, mouse, console_status, history, prompt, fragments,
                   continuing, cursor_type, cursor_hidden, residual, exit, last,
                   cursor_at_open, keys, pressed, moves, holder, threads, drained,
                   pushed, logged, overflow_checks>>

GridWiden ==
    /\ ~grid_last.panicked
    /\ grid.width < MaxSide
    /\ GridOp("widen", <<>>, Grid_widen(grid), FALSE)

GridThin ==
    /\ ~grid_last.panicked
    /\ GridOp("thin", <<>>, Grid_thin(grid), FALSE)

GridHeighten ==
    /\ ~grid_last.panicked
    /\ Len(grid.mats) + grid.width <= MaxSide * MaxSide
    /\ Grid_height(grid) < MaxSide
    /\ GridOp("heighten", <<>>, Grid_heighten(grid), FALSE)

\* mats.len() - width underflows when the Grid has fewer cells than its width
GridShorten ==
    /\ ~grid_last.panicked
    /\ GridOp("shorten", <<>>, Grid_shorten(grid),
              overflow_checks /\ Len(grid.mats) < grid.width)

\* insert of Material::Ore, aimed inside the Grid and past its edges
GridInsert ==
    /\ ~grid_last.panicked
    /\ \E x \in 0..MaxSide, y \in 0..MaxSide :
          GridOp("insert", <<x, y, "Ore">>, Grid_insert(grid, x, y, "Ore"), FALSE)

NextGrid ==
    \/ GridWiden
    \/ GridThin
    \/ GridHeighten
    \/ GridShorten
    \/ GridInsert

SpecGrid == InitGrid /\ [][NextGrid]_vars

----------------------------------------------------------------------------
(* What the last handler was *)

\* the console was open when the last handler started
WasOpen == is_open(last.pre.console_status)

\* the last handler closed an open console: Escape typed into it, or close called
JustClosed ==
    /\ last.op \in {"text_input_event", "close"}
    /\ WasOpen
    /\ ~is_open(console_status)

\* the last handler executed the command line whose first word is verb
Executed(verb) ==
    /\ last.op = "text_input_event"
    /\ last.arg = <<RETURN>>
    /\ WasOpen
    /\ FirstToken(last.pre.prompt) = verb

\* the last handler was a key or mouse-button event
InputEvent ==
    last.op \in {"key_down_event", "key_up_event",
                 "mouse_button_down_event", "mouse_button_up_event"}

\* the last handler was update and got past its transition check
Updated == last.op = "update" /\ ~last.arg[2]

\* s is what is left of t after dropping from its front
IsSuffix(s, t) ==
    /\ Len(s) <= Len(t)
    /\ s = SubSeq(t, Len(t) - Len(s) + 1, Len(t))

----------------------------------------------------------------------------
(* C1 *)

\* C1: when an open console is closed (by Escape or by close), the platform cursor
\* icon and hidden flag are those the platform had just before the console opened,
\* whatever mouse motion, frames, screen switches and text input did in between
C1_CursorRestored ==
    JustClosed =>
        /\ cursor_type = cursor_at_open.cursor_type
        /\ cursor_hidden = cursor_at_open.cursor_hidden

\* the console was opened over Menu with a switch to Play pending, Play was
\* constructed and hid the cursor, and closing showed it again
C1_Witness ==
    /\ JustClosed
    /\ gs = "Play"
    /\ last.pre.cursor_hidden
    /\ ~cursor_hidden

----------------------------------------------------------------------------
(* C2 *)

\* C2: open on an open console leaves the status and its saved icon and hidden flag
\* as they were; close on a closed console leaves it closed and the platform cursor
\* as it was
C2_OpenCloseIdempotent ==
    /\ (last.op = "open" /\ WasOpen) => console_status = last.pre.console_status
    /\ (last.op = "close" /\ ~WasOpen) =>
            /\ console_status = Closed
            /\ cursor_type = last.pre.cursor_type
            /\ cursor_hidden = last.pre.cursor_hidden

\* open was called on an open console whose saved hidden flag differs from the
\* platform's
C2_Witness ==
    /\ last.op = "open"
    /\ WasOpen
    /\ console_status.cursor_hidden # cursor_hidden

----------------------------------------------------------------------------
(* C3 *)

\* C3 as claimed: the rendered history is never higher than PROMPT_Y
C3_HeightAlwaysBounded == height(history) <= PROMPT_Y

\* C3, amended: after every update that runs with the console open the rendered
\* history is no higher than PROMPT_Y, and it is what is left of the old history
\* followed by the drained log fragments after dropping from the front
C3_TrimmedEachFrame ==
    (Updated /\ is_open(console_status)) =>
        /\ height(history) <= PROMPT_Y
        /\ IsSuffix(history, last.pre.history \o last.pre.fragments)

\* an update with the console open dropped some fragments and kept others
C3_Witness ==
    /\ Updated
    /\ is_open(console_status)
    /\ history # <<>>
    /\ Len(history) < Len(last.pre.history) + Len(last.pre.fragments)

----------------------------------------------------------------------------
(* C4 *)

\* C4 as claimed: after clear the history is the one the console started with
C4_ClearGivesInitial == Executed(CLEAR) => history = InitialHistory

\* C4, amended: after clear the history holds no text and renders with height 0,
\* whatever it held before
C4_ClearEmpties ==
    Executed(CLEAR) =>
        /\ Contents(history) = <<>>
        /\ height(history) = 0

\* clear was executed on a history of several fragments
C4_Witness ==
    /\ Executed(CLEAR)
    /\ Len(last.pre.history) >= 2

----------------------------------------------------------------------------
(* C5 *)

\* C5: after reload the one pending transition targets Menu, whatever was pending
C5_ReloadTargetsMenu == Executed(RELOAD) => switch_state = "Menu"

\* reload was executed while a switch to Play was pending
C5_Witness ==
    /\ Executed(RELOAD)
    /\ last.pre.switch_state = "Play"

----------------------------------------------------------------------------
(* C6 *)

\* the last handler delivered a left click on the Play button to Menu
ClickedPlay ==
    /\ last.op = "mouse_button_up_event"
    /\ last.arg = <<"Left">>
    /\ ~WasOpen
    /\ last.pre.gs = "Menu"
    /\ in_bounds(last.pre.mouse)

\* C6: update takes the pending transition: the slot is empty afterwards, the named
\* screen is constructed once (and no screen when nothing was pending) and, when the
\* construction succeeds, is the active screen; the slot holds at most one request
\* and a request replaces the one already there
C6_TransitionConsumedOnce ==
    /\ switch_state \in {"None", "Menu", "Play"}
    /\ last.op = "update" =>
            /\ switch_state = "None"
            /\ last.calls.new =
                    IF last.pre.switch_state = "None" THEN <<>>
                    ELSE <<last.pre.switch_state>>
            /\ gs = IF last.pre.switch_state = "None" \/ last.arg[2]
                    THEN last.pre.gs ELSE last.pre.switch_state
    /\ last.op # "new" /\ last.op # "update" /\ switch_state # last.pre.switch_state
            => Executed(RELOAD) \/ ClickedPlay
    /\ Executed(RELOAD) => switch_state = "Menu"
    /\ ClickedPlay => switch_state = "Play"

\* an update took a pending switch and replaced the screen
C6_Witness ==
    /\ Updated
    /\ last.pre.switch_state = "Play"
    /\ last.pre.gs = "Menu"
    /\ gs = "Play"

----------------------------------------------------------------------------
(* C7 *)

\* how often the last handler called the screen's event_down and event_up
Delivered == last.calls.event_down + last.calls.event_up

\* the events Master keeps from the screen though the console is closed: a repeated
\* key-down, the quit combination, the release of the toggle key
KeptFromScreen ==
    \/ last.op = "key_down_event" /\ last.arg[3]
    \/ last.op = "key_down_event" /\ last.arg[1] = "Escape" /\ last.arg[2]
    \/ last.op = "key_up_event" /\ last.arg[1] = "Tab"

\* C7 as claimed: with the console open no key or mouse-button event reaches the
\* screen, with the console closed every one does
C7_ClosedAlwaysDelivers ==
    InputEvent => Delivered = IF WasOpen THEN 0 ELSE 1

\* C7, amended: with the console open no key or mouse-button event reaches the
\* screen; with the console closed every one reaches the screen handler of its
\* direction, except a repeated key-down, the quit combination and the release of
\* the toggle key
C7_OpenConsoleGatesScreen ==
    InputEvent =>
        /\ WasOpen => Delivered = 0
        /\ ~WasOpen /\ KeptFromScreen => Delivered = 0
        /\ ~WasOpen /\ ~KeptFromScreen =>
                /\ last.calls.event_down =
                        IF last.op \in {"key_down_event", "mouse_button_down_event"}
                        THEN 1 ELSE 0
                /\ last.calls.event_up =
                        IF last.op \in {"key_up_event", "mouse_button_up_event"}
                        THEN 1 ELSE 0

\* a first key-down of an ordinary key arrived while the console was open
C7_Witness ==
    /\ last.op = "key_down_event"
    /\ last.arg = <<"W", FALSE, FALSE>>
    /\ WasOpen
    /\ Delivered = 0

----------------------------------------------------------------------------
(* C8 *)

\* the last handler was a key-down of Escape with Shift held
QuitCombination ==
    /\ last.op = "key_down_event"
    /\ last.arg[1] = "Escape"
    /\ last.arg[2]

\* C8 as claimed: every key-down of the quit combination ends the process
C8_EveryQuitKeyDownQuits == QuitCombination => ~continuing

\* C8, amended: every key-down of the quit combination that is not a repeat sets
\* continuing to false, with the console open or closed, and is not routed anywhere
\* else; a repeat is dropped
C8_FirstQuitKeyDownQuits ==
    QuitCombination =>
        /\ ~last.arg[3] => ~continuing
        /\ last.arg[3] => continuing = last.pre.continuing
        /\ Delivered = 0
        /\ console_status = last.pre.console_status

\* the quit combination arrived while the console was open and the process was
\* still continuing
C8_Witness ==
    /\ QuitCombination
    /\ ~last.arg[3]
    /\ WasOpen
    /\ last.pre.continuing
    /\ ~continuing

----------------------------------------------------------------------------
(* C9 *)

\* the last handler was a key event of the toggle key
ToggleKeyEvent ==
    /\ last.op \in {"key_down_event", "key_up_event"}
    /\ last.arg[1] = "Tab"

\* C9 as claimed: with the console closed no event of the toggle key reaches a
\* screen handler and its release opens the console; with the console open the
\* toggle key leaves the status as it is
C9_ToggleKeyNeverReachesScreen ==
    ToggleKeyEvent =>
        /\ Delivered = 0
        /\ (last.op = "key_up_event" /\ ~WasOpen) => is_open(console_status)
        /\ WasOpen => console_status = last.pre.console_status

----------------------------------------------------------------------------
(* C10 *)

\* C10: an update that gets to the timestep with the console open does not call the
\* screen's update and leaves no step owed; with the console closed it calls the
\* screen's update once for each step owed and then the screen's logic once
C10_TimestepFrozenWhileOpen ==
    Updated =>
        /\ residual = 0
        /\ is_open(console_status) => last.calls.update = 0
        /\ ~is_open(console_status) =>
                /\ last.calls.update = last.pre.residual + last.arg[1]
                /\ last.calls.logic = 1

\* steps were owed when an update ran with the console open
C10_Witness ==
    /\ Updated
    /\ is_open(console_status)
    /\ last.arg[1] >= 2
    /\ last.calls.update = 0

----------------------------------------------------------------------------
(* C11 *)

RECURSIVE Replay(_)
\* the string a sequence of typed characters and backspaces stands for: each
\* character is appended, each backspace removes the last character if there is one
Replay(ks) ==
    IF ks = <<>> THEN <<>>
    ELSE LET before == Replay(SubSeq(ks, 1, Len(ks) - 1))
             c == ks[Len(ks)]
         IN  IF c # BACKSPACE THEN Append(before, c)
             ELSE IF before = <<>> THEN <<>>
             ELSE SubSeq(before, 1, Len(before) - 1)

\* the string typed for the line that was just run
Typed == Replay(SubSeq(keys, 1, Len(keys) - 1))

\* the last handler ran the line the operator typed
RanTyped == LineRun /\ last.op = "text_input_event"

\* the keys of the example: relo, backspace, ad, Return
ExampleKeys == <<"r", "e", "l", "o", BACKSPACE, "a", "d", RETURN>>

\* C11 as claimed, its example: typing relo, a backspace, ad and Return runs reload,
\* leaves a transition to Menu pending and echoes "> reload"
C11_ExampleRunsReload ==
    (RanTyped /\ keys = ExampleKeys) =>
        /\ switch_state = "Menu"
        /\ history = Append(last.pre.history, echo(RELOAD))

\* C11, amended: while a line is typed into the open console the prompt is the
\* string the characters and backspaces stand for; Return echoes that string after
\* "> " as the newest line of the history, empties the prompt and runs the first
\* word of the string as the command: reload leaves a transition to Menu pending
\* and logs nothing, a word that is no command leaves the pending slot as it was
\* and logs one record
C11_TypedLineRuns ==
    /\ ~LineRun => prompt = Replay(keys)
    /\ LineRun => prompt = <<>>
    /\ RanTyped =>
            /\ last.pre.prompt = Typed
            /\ history = Append(last.pre.history, echo(Typed))
            /\ FirstToken(Typed) = RELOAD =>
                    /\ switch_state = "Menu"
                    /\ fragments = last.pre.fragments
            /\ FirstToken(Typed) = RELAD =>
                    /\ switch_state = last.pre.switch_state
                    /\ Len(fragments) = Len(last.pre.fragments) + 1

\* the keys of the example were typed and run: the line was relad, nothing is
\* pending and one record was logged
C11_Witness ==
    /\ RanTyped
    /\ keys = ExampleKeys
    /\ Typed = RELAD
    /\ switch_state = "None"
    /\ Len(fragments) = 1

----------------------------------------------------------------------------
(* C12 *)

\* the words Console::handle knows, the empty one included
KnownVerbs == {<<>>, CLEAR, RELOAD, HELLO, QUIT}

\* the last handler ran a line whose first word is no command
RanUnknown ==
    /\ last.op = "text_input_event"
    /\ last.arg = <<RETURN>>
    /\ WasOpen
    /\ FirstToken(last.pre.prompt) \notin KnownVerbs

\* the yellow line that warns of an unknown word
Warning(verb) ==
    Frag(<<"  Unknown command `">> \o verb \o <<"'!">> \o <<"\n">>, "YELLOW")

\* how often a fragment occurs in a text
Occurrences(h, f) == Cardinality({i \in DOMAIN h : h[i] = f})

\* the last handler was an update that drained the log buffer
Drained == Updated /\ is_open(console_status)

\* C12: running a line whose first word is no command appends one record to the
\* log buffer, a one-line warning that contains the word, leaves the pending slot
\* and continuing as they were and the loop running; the next update with the
\* console open moves the buffer to the end of the history, each record once, and
\* drops lines only from the top of a history that is too high
C12_UnknownVerbWarnsOnce ==
    /\ RanUnknown =>
            /\ fragments =
                    Append(last.pre.fragments, Warning(FirstToken(last.pre.prompt)))
            /\ LineCount(Warning(FirstToken(last.pre.prompt)).text) = 1
            /\ history = Append(last.pre.history, echo(last.pre.prompt))
            /\ switch_state = last.pre.switch_state
            /\ continuing = last.pre.continuing
            /\ exit = "none"
    /\ Drained =>
            /\ fragments = <<>>
            /\ IsSuffix(history, last.pre.history \o last.pre.fragments)
            /\ height(last.pre.history \o last.pre.fragments) <= PROMPT_Y
                    => history = last.pre.history \o last.pre.fragments

\* the warning of relad was moved from the log buffer into the history, where it
\* stands once
C12_Witness ==
    /\ Drained
    /\ Occurrences(last.pre.fragments, Warning(RELAD)) = 1
    /\ Occurrences(last.pre.history, Warning(RELAD)) = 0
    /\ Occurrences(history, Warning(RELAD)) = 1
    /\ switch_state = "None"
    /\ continuing

----------------------------------------------------------------------------
(* C13 *)

RECURSIVE AllTaken(_)
\* what the calls of empty returned, one after the other
AllTaken(d) == IF d = <<>> THEN <<>> ELSE Head(d).taken \o AllTaken(Tail(d))

\* C13: a call of empty that follows another with no push in between returns
\* nothing, and no fragment is returned twice, by one call or by two
C13_SecondDrainEmpty ==
    /\ \A i \in 1..(Len(drained) - 1) :
            drained[i + 1].pushes = drained[i].pushes => drained[i + 1].taken = <<>>
    /\ \A i, j \in DOMAIN AllTaken(drained) :
            i # j => AllTaken(drained)[i] # AllTaken(drained)[j]

\* empty returned two fragments and, called again with no push in between, nothing
C13_Witness ==
    /\ Len(drained) >= 2
    /\ Len(drained[1].taken) = 2
    /\ drained[2].pushes = drained[1].pushes
    /\ drained[2].taken = <<>>

----------------------------------------------------------------------------
(* C14 *)

\* the threads that are between taking the mutex and giving it back
InCriticalSection == {t \in Threads : threads[t].pc \in {"load", "store", "unlock"}}

\* the fragment ConsoleLogger::log makes of a record
FragOf(r) == Frag(r.args \o <<"\n">>, get_colour(r.level))

\* C14: however the steps of the logging threads and of the draining thread
\* interleave, at most one thread is past the lock, and what the drains returned
\* so far followed by what the buffer holds is the sequence of the fragments
\* pushed, in the order of the pushes: none lost, none twice; and the fragment of
\* every record of this crate whose log has returned is among them
C14_SerializedExactlyOnce ==
    /\ Cardinality(InCriticalSection) <= 1
    /\ AllTaken(drained) \o fragments = pushed
    /\ \A i \in DOMAIN logged :
            enabled(logged[i].target) => Occurrences(pushed, FragOf(logged[i])) = 1

\* the draining thread is taking a buffer of one fragment while both logging
\* threads wait for the mutex with a record each
C14_Witness ==
    /\ threads[MainThread].pc = "store"
    /\ Len(threads[MainThread].local) = 1
    /\ \A t \in LogThreads : threads[t].pc = "lock"

----------------------------------------------------------------------------
(* C15 *)

\* 1 when a key of ks is held, else 0
AnyHeld(ks) == IF ks \cap pressed # {} THEN 1 ELSE 0

\* the example: W goes down, S goes down, W goes up
ExampleMoves == << <<"down", "W">>, <<"down", "S">>, <<"up", "W">> >>

\* C15: after every sequence of key-down and key-up events of the movement keys,
\* releases of keys that are not down included, the key of the latest event is
\* held exactly if that event was a key-down, both axes are -1, 0 or 1, and each is
\* 1 if a key of its positive direction is held, less 1 if a key of its negative
\* direction is held; after W down, S down, W up, S is held and W is not, and
\* the vertical axis is 1 unless Up is held too
C15_AxesFollowHeldKeys ==
    /\ moves # <<>> =>
            (moves[Len(moves)][2] \in pressed <=> moves[Len(moves)][1] = "down")
    /\ ver(pressed) \in {-1, 0, 1}
    /\ hor(pressed) \in {-1, 0, 1}
    /\ ver(pressed) = AnyHeld({"S", "Down"}) - AnyHeld({"W", "Up"})
    /\ hor(pressed) = AnyHeld({"D", "Right"}) - AnyHeld({"A", "Left"})
    /\ moves = ExampleMoves =>
            /\ "S" \in pressed
            /\ "W" \notin pressed
            /\ "Up" \notin pressed => ver(pressed) = 1

\* the example from the start: only S is held and the vertical axis is 1
C15_Witness ==
    /\ moves = ExampleMoves
    /\ pressed = {"S"}
    /\ ver(pressed) = 1
    /\ hor(pressed) = 0

----------------------------------------------------------------------------
(* C16 *)

\* the last handler was a paste into the open console for which the clipboard
\* could not be read
PasteFailed ==
    /\ last.op = "text_input_event"
    /\ last.arg = <<PASTE, ClipErr>>
    /\ WasOpen

\* C16 as claimed: a paste for which the clipboard cannot be read leaves the prompt
\* as it was, logs a record and lets the loop run on
C16_ClipboardFailureRecovers ==
    PasteFailed =>
        /\ exit = "none"
        /\ prompt = last.pre.prompt
        /\ Len(fragments) = Len(last.pre.fragments) + 1

----------------------------------------------------------------------------
(* C17 *)

\* the last handler ran the line in the prompt
RanLine ==
    /\ last.op = "text_input_event"
    /\ last.arg = <<RETURN>>
    /\ WasOpen

\* C17: whatever the prompt holds (nothing, a blank, a word after a blank, a
\* command, a word that is no command), running it does not panic: the loop runs
\* on with an empty prompt, a word that is no command has become one record in
\* the log buffer, and every other line has logged nothing
C17_ExecuteNeverPanics ==
    /\ exit # "panic"
    /\ RanLine =>
            /\ exit = "none"
            /\ prompt = <<>>
            /\ Len(fragments) = Len(last.pre.fragments) +
                    (IF FirstToken(last.pre.prompt) \in KnownVerbs THEN 0 ELSE 1)

\* a line of one blank was run
C17_Witness ==
    /\ RanLine
    /\ last.pre.prompt = <<" ">>
    /\ exit = "none"

----------------------------------------------------------------------------
(* C18 *)

\* C18: a log call pushes one fragment when the target of its record begins with
\* cowfarg and none otherwise: of the records whose log has returned, those of
\* this crate have their fragment pushed once and the others never, and nothing
\* else is ever in the buffer
C18_OnlyOwnRecordsCaptured ==
    /\ \A i \in DOMAIN logged :
            Occurrences(pushed, FragOf(logged[i])) =
                IF starts_with(logged[i].target, COWFARG) THEN 1 ELSE 0
    /\ Len(pushed) <=
            Cardinality({i \in DOMAIN logged : starts_with(logged[i].target, COWFARG)})
                + Cardinality({t \in LogThreads : threads[t].pc # "idle"})
    /\ \A i \in DOMAIN fragments : Occurrences(pushed, fragments[i]) = 1

\* three records were logged, of the graphics library, of cow and of this crate's
\* game module: the buffer holds the one fragment of the last
C18_Witness ==
    /\ Len(logged) = 3
    /\ \E i, j, k \in DOMAIN logged :
            /\ logged[i].target = <<"g", "g", "e", "z">>
            /\ logged[j].target = <<"c", "o", "w">>
            /\ logged[k].target = COWFARG \o <<":", ":", "g", "a", "m", "e">>
            /\ fragments = <<FragOf(logged[k])>>
    /\ drained = <<>>

----------------------------------------------------------------------------
(* C19 *)

\* C19 as claimed: after every update that gets past the transition check the log
\* buffer is empty
C19_EveryUpdateDrains == Updated => fragments = <<>>

\* C19, amended: an update that gets past the transition check with the console
\* open leaves the log buffer empty and the history ending with what the buffer
\* held; with the console closed it leaves the buffer and the history as they were
C19_DrainedOnlyWhileOpen ==
    /\ (Updated /\ is_open(console_status)) =>
            /\ fragments = <<>>
            /\ IsSuffix(history, last.pre.history \o last.pre.fragments)
            /\ last.pre.fragments # <<>> =>
                    history # <<>> /\ history[Len(history)] =
                        last.pre.fragments[Len(last.pre.fragments)]
    /\ (Updated /\ ~is_open(console_status)) =>
            /\ fragments = last.pre.fragments
            /\ history = last.pre.history

\* an update ran with the console closed and a record in the log buffer, which is
\* still there
C19_Witness ==
    /\ Updated
    /\ ~is_open(console_status)
    /\ fragments # <<>>

----------------------------------------------------------------------------
(* C20 *)

\* the last handler was an update whose screen construction failed
UpdateFailed == last.op = "update" /\ last.arg[2]

\* C20: when the construction of the screen fails, update ends the loop with the
\* error: the screen is the one Master had, the pending slot is empty, the
\* construction was tried once, neither the screen's update nor its logic ran and
\* the log buffer and the history are as they were; when it succeeds the screen
\* is the requested one; Master always has a screen
C20_FailedConstructionKeepsScreen ==
    /\ gs \in {"Menu", "Play"}
    /\ UpdateFailed =>
            /\ exit = "err"
            /\ last.pre.switch_state # "None"
            /\ gs = last.pre.gs
            /\ switch_state = "None"
            /\ last.calls.new = <<last.pre.switch_state>>
            /\ last.calls.update = 0
            /\ last.calls.logic = 0
            /\ fragments = last.pre.fragments
            /\ history = last.pre.history
    /\ (Updated /\ last.pre.switch_state # "None") =>
            /\ gs = last.pre.switch_state
            /\ switch_state = "None"

\* the construction of Menu failed while Play was the screen, the console was open
\* and a record waited in the log buffer
C20_Witness ==
    /\ UpdateFailed
    /\ last.pre.gs = "Play"
    /\ last.pre.switch_state = "Menu"
    /\ WasOpen
    /\ fragments # <<>>
    /\ gs = "Play"

----------------------------------------------------------------------------
(* C21 *)

\* the last handler was a mouse-motion event
Moved == last.op = "mouse_motion_event"

\* C21: a mouse-motion event stores the position and leaves the console status,
\* its saved icon and hidden flag included, as it was; with the console open it
\* sets the platform cursor to the saved icon and hidden flag when y > PROMPT_Y and
\* to the visible default arrow otherwise; with the console closed it leaves the
\* platform cursor as it was
C21_MotionSetsLiveCursorOnly ==
    Moved =>
        /\ console_status = last.pre.console_status
        /\ mouse = last.arg[1]
        /\ (WasOpen /\ last.arg[1].y > PROMPT_Y) =>
                /\ cursor_type = last.pre.console_status.cursor
                /\ cursor_hidden = last.pre.console_status.cursor_hidden
        /\ (WasOpen /\ last.arg[1].y <= PROMPT_Y) =>
                /\ cursor_type = "Default"
                /\ cursor_hidden = FALSE
        /\ ~WasOpen =>
                /\ cursor_type = last.pre.cursor_type
                /\ cursor_hidden = last.pre.cursor_hidden

\* the console was opened with the cursor hidden; the mouse left the panel, where
\* the cursor was shown, and the cursor is hidden again
C21_Witness ==
    /\ Moved
    /\ WasOpen
    /\ last.arg[1].y > PROMPT_Y
    /\ console_status.cursor_hidden
    /\ ~last.pre.cursor_hidden
    /\ cursor_hidden

----------------------------------------------------------------------------
(* C22 *)

\* the control characters text_input_event has an arm for
KnownControls == {BACKSPACE, DELETE, ESCAPE, TAB, PASTE, RETURN}

\* the last handler was text input of a control character the console does not
\* know, with the console open
UnknownControlTyped ==
    /\ last.op = "text_input_event"
    /\ WasOpen
    /\ is_control(last.arg[1])
    /\ last.arg[1] \notin KnownControls

\* C22: a control character the console does not know, typed into the open
\* console, adds one line to the history that says "Unknown control character"
\* and names it; the prompt, the console status, the pending slot, the log buffer
\* and continuing are as they were and the loop runs on; text input of any kind
\* with the console closed leaves everything as it was
C22_UnknownControlNoticed ==
    /\ UnknownControlTyped =>
            /\ history = Append(last.pre.history,
                    Frag(<<"Unknown control character ", last.arg[1], "\n">>, "None"))
            /\ prompt = last.pre.prompt
            /\ console_status = last.pre.console_status
            /\ switch_state = last.pre.switch_state
            /\ fragments = last.pre.fragments
            /\ continuing = last.pre.continuing
            /\ exit = "none"
    /\ (last.op = "text_input_event" /\ ~WasOpen) =>
            /\ Snapshot = last.pre
            /\ exit = "none"

\* the character was typed while the prompt held text
C22_Witness ==
    /\ UnknownControlTyped
    /\ last.arg[1] = SOH
    /\ prompt # <<>>
    /\ Len(history) = Len(last.pre.history) + 1

----------------------------------------------------------------------------
(* C23 *)

\* C23: Master holds one screen at all times; no handler but update replaces it
\* or constructs one: key, mouse-button, mouse-motion and text events, the console
\* commands they run, draw, open and close leave the screen as it was, whatever
\* they put into the pending slot; update replaces it only by the screen that was
\* pending, and leaves it when nothing was
C23_ScreenReplacedOnlyByUpdate ==
    /\ gs \in {"Menu", "Play"}
    /\ last.op \notin {"new", "update"} =>
            /\ gs = last.pre.gs
            /\ last.calls.new = <<>>
    /\ last.op = "update" =>
            /\ gs \in {last.pre.gs, last.pre.switch_state}
            /\ last.pre.switch_state = "None" =>
                    /\ gs = last.pre.gs
                    /\ last.calls.new = <<>>

\* reload was run while Play was the screen: Menu is pending and Play is still
\* the screen
C23_Witness ==
    /\ Executed(RELOAD)
    /\ last.pre.gs = "Play"
    /\ last.pre.switch_state = "None"
    /\ switch_state = "Menu"
    /\ gs = "Play"

----------------------------------------------------------------------------
(* C24 *)

\* the last step was a turn of the trimming loop
Trimmed == last.op = "trim"

\* C24: every turn of the trimming loop removes the first fragment and nothing
\* else, so the history gets shorter by one and keeps its order; the loop is left
\* at once when the history is empty; so it ends after at most as many turns as
\* the history has fragments, and what it leaves is what update's trimming gives
C24_TrimLoopTerminates ==
    /\ history = <<>> => height(history) <= PROMPT_Y
    /\ Trimmed =>
            /\ height(last.pre.history) > PROMPT_Y
            /\ last.pre.history # <<>>
            /\ Len(history) = Len(last.pre.history) - 1
            /\ \A i \in DOMAIN history : history[i] = last.pre.history[i + 1]
            /\ trim(history) = trim(last.pre.history)
    /\ height(history) <= PROMPT_Y => trim(history) = history

\* the only fragment of the history, higher than the prompt line by itself, was
\* removed: the history is empty and the loop is over
C24_Witness ==
    /\ Trimmed
    /\ Len(last.pre.history) = 1
    /\ history = <<>>
    /\ height(history) <= PROMPT_Y

----------------------------------------------------------------------------
(* C25 *)

\* the coordinates looked at
GridCells == {<<x, y>> : x \in 0..MaxSide, y \in 0..MaxSide}

\* the cells that exist in the Grid before the last operation and after it,
\* other than those in skipped, hold what they held
CellsKept(skipped) ==
    \A c \in GridCells \ skipped :
        (Grid_get(grid_last.pre, c[1], c[2]) # <<>> /\ Grid_get(grid, c[1], c[2]) # <<>>)
            => Grid_get(grid, c[1], c[2]) = Grid_get(grid_last.pre, c[1], c[2])

\* the width and the height of the Grid are those before the last operation
\* plus dw and dh
Reshaped(dw, dh) ==
    /\ grid.width = grid_last.pre.width + dw
    /\ Grid_height(grid) = Grid_height(grid_last.pre) + dh

\* C25: a Grid made with a width and a height of at least one has width * height
\* cells with both at least one, made with the width and the height asked for;
\* widen and thin change the width by one and keep the height (thin does nothing
\* at width one), heighten and shorten change the height by one and keep the
\* width (shorten does nothing at height one), insert keeps both, and the cells
\* that exist before and after keep what they held
C25_GridKeepsShape ==
    ~grid_last.panicked =>
        /\ grid.width >= 1
        /\ Grid_height(grid) >= 1
        /\ Len(grid.mats) = grid.width * Grid_height(grid)
        /\ grid_last.op = "new" =>
                /\ grid.width = grid_last.arg[1]
                /\ Grid_height(grid) = grid_last.arg[2]
        /\ grid_last.op = "widen" => Reshaped(1, 0) /\ CellsKept({})
        /\ grid_last.op = "thin" =>
                /\ Reshaped(IF grid_last.pre.width = 1 THEN 0 ELSE -1, 0)
                /\ CellsKept({})
        /\ grid_last.op = "heighten" => Reshaped(0, 1) /\ CellsKept({})
        /\ grid_last.op = "shorten" =>
                /\ Reshaped(0, IF Grid_height(grid_last.pre) = 1 THEN 0 ELSE -1)
                /\ CellsKept({})
        /\ grid_last.op = "insert" =>
                /\ Reshaped(0, 0)
                /\ CellsKept({<<grid_last.arg[1], grid_last.arg[2]>>})

====
